---- MODULE Spec2Model ----
(***************************************************************************)
(* The verbal-memory game engine of src/game/game.js (class GameEngine)    *)
(* together with the word supplier and score sink it calls (class MockAPI).*)
(*                                                                         *)
(* JavaScript runs every synchronous stretch of code to completion, so one *)
(* action is one such stretch: a call made by the presentation layer       *)
(* (startGame, answerSeen, answerNew, setMode) or one callback of the      *)
(* event loop (the 500 ms round-advance delay, the completion of           *)
(* getNextWord, a tick of the 100 ms countdown interval, the completion of *)
(* saveScore).  Times are in tenths of a second.                           *)
(***************************************************************************)
EXTENDS Integers, Sequences, FiniteSets

VARIABLES
    gameState,          \* this.state.gameState
    gameMode,           \* this.state.gameMode
    currentScore,       \* this.state.currentScore
    lives,              \* this.state.lives
    seenWords,          \* this.state.seenWords (the array the state refers to)
    currentWordData,    \* this.state.currentWordData: word and time_limit
    timerValue,         \* this.state.timerValue
    timerInterval,      \* this.timerInterval: TRUE while it holds a handle
    activeIntervals,    \* intervals set by setInterval and not yet cleared
    isProcessingAnswer, \* this.isProcessingAnswer
    pendingDelays,      \* scheduled setTimeout(() => fetchNextWord(), 500)
    pendingFetches,     \* getNextWord calls in flight, oldest first
    pendingSaves,       \* number of saveScore calls in flight
    snapshots,          \* values of getState() the presentation layer holds
    presented,          \* history: a word was installed since the last startGame
    resolved,           \* history: resolutions since the last installation
    roundCorrect,       \* history: answers evaluated correct since startGame
    roundMode,          \* history: gameMode at the last startGame
    saveLog             \* history: saveScore calls made since startGame

vars == <<gameState, gameMode, currentScore, lives, seenWords, currentWordData,
          timerValue, timerInterval, activeIntervals, isProcessingAnswer,
          pendingDelays, pendingFetches, pendingSaves, snapshots, presented,
          resolved, roundCorrect, roundMode, saveLog>>

history == <<presented, resolved, roundCorrect, roundMode, saveLog>>

engine == <<gameState, gameMode, currentScore, lives, seenWords,
            currentWordData, timerValue, timerInterval, activeIntervals,
            isProcessingAnswer>>

(***************************************************************************)
(* Bounds of the model.                                                    *)
(***************************************************************************)
\* how many entries of the word bank the supplier draws from
BankSize == 1
\* longest seenWords array explored
MaxSeen == 4
\* most round-advance delays scheduled at once
MaxDelays == 2
\* most getNextWord calls in flight at once
MaxFetches == 1
\* most saveScore calls in flight at once
MaxSaves == 1
\* most getState() values held at once
MaxSnapshots == 1
\* time limits drawn: the MaxTimeLimitSteps + 1 shortest ones
MaxTimeLimitSteps == 0
\* runs of the interval callback followed from the start of a countdown;
\* those of its last half period and at its deadline always are
MaxEarlyTicks == 0

(***************************************************************************)
(* Program constants.                                                      *)
(***************************************************************************)
StartLives == 3
\* time_limit = 5.0 - difficulty * 3.0 with difficulty in [0, 1)
MaxTimeLimit == 50
MinTimeLimit == 20

WordBankAll ==
    <<"apple", "logic", "memory", "system", "neural", "compute", "vector",
      "matrix", "binary", "cache", "thread", "kernel", "buffer", "pipeline",
      "latency", "runtime", "compile", "debug", "syntax", "parser", "lexer",
      "token", "stack", "heap", "queue", "graph", "tree", "node", "edge",
      "vertex", "algorithm", "function", "variable", "object", "array",
      "string">>
wordBank == {WordBankAll[i] : i \in 1..BankSize}

\* parseFloat(time_limit.toFixed(1)), in tenths of a second
TimeLimits ==
    {t \in MinTimeLimit..MaxTimeLimit : t <= MinTimeLimit + MaxTimeLimitSteps}

\* milliseconds in one tenth of a second, the unit of timerValue
MsPerTenth == 100
\* setInterval(..., 100): the period of the interval callback, in ms
TickPeriod == 100
\* spacing, in ms, of the instants followed in the last half period
ElapsedGrain == 40

\* elapsed = Date.now() - startTime, in ms, for a countdown of `duration`
\* ms: the callback's first MaxEarlyTicks runs, on time; the instants of
\* the last half period; the deadline.  Every later instant gives the same
\* remaining time as the deadline, 0
EarlyTimes == {k * TickPeriod : k \in 1..MaxEarlyTicks}
LateTimes(duration) ==
    {duration - k * ElapsedGrain :
        k \in 0..((TickPeriod \div 2) \div ElapsedGrain)}
ElapsedTimes(duration) ==
    {e \in EarlyTimes \cup LateTimes(duration) : e >= 0 /\ e <= duration}

\* remaining times in ms, half way between two tenths, whose double
\* remaining / 1000 lies below the half: toFixed(1) rounds them down
HalfwayBelow ==
    {150, 350, 850, 950, 1150, 1450, 1650, 1950, 2050, 2150, 2550, 2650,
     3050, 3150, 3550, 3650, 4050, 4350, 4550, 4850}

\* parseFloat(remaining.toFixed(1)) in tenths, for a remaining time in ms
toFixed1(ms) ==
    IF ms \in HalfwayBelow THEN ms \div MsPerTenth
    ELSE (ms + (MsPerTenth \div 2)) \div MsPerTenth

Modes == {"easy", "medium", "hard"}
\* arguments of setMode: the three modes and a string that is none of them
ModeInputs == Modes \cup {"insane"}

Range(s) == {s[i] : i \in 1..Len(s)}
Max(a, b) == IF a >= b THEN a ELSE b

\* Array.prototype.includes
includes(arr, w) == \E i \in 1..Len(arr) : arr[i] = w

NoResolution == [correct |-> 0, wrong |-> 0, timeout |-> 0]

Init ==
    /\ gameState = "MENU"
    /\ gameMode = "medium"
    /\ currentScore = 0
    /\ lives = StartLives
    /\ seenWords = <<>>
    /\ currentWordData = [word |-> "", time_limit |-> 0]
    /\ timerValue = 0
    /\ timerInterval = FALSE
    /\ activeIntervals = 0
    /\ isProcessingAnswer = FALSE
    /\ pendingDelays = 0
    /\ pendingFetches = <<>>
    /\ pendingSaves = 0
    /\ snapshots = <<>>
    /\ presented = FALSE
    /\ resolved = NoResolution
    /\ roundCorrect = 0
    /\ roundMode = "medium"
    /\ saveLog = <<>>

(***************************************************************************)
(* MockAPI.getNextWord(seenWords).  The call keeps a reference to the      *)
(* array it was given and reads it when its 100 ms timeout runs.  A call   *)
(* in flight is [cur |-> TRUE] while that array is still state.seenWords,  *)
(* and carries the words the array holds once startGame has replaced it    *)
(* (nothing changes the old array any more, and getNextWord uses only      *)
(* which words are in it).                                                 *)
(***************************************************************************)
FetchOfCurrent == [cur |-> TRUE, words |-> {}]

\* the words getNextWord can resolve with: a repeat of any entry of the
\* array, or a bank word (a seen one when all 50 attempts hit seen words)
GetNextWordResults(words) == words \cup wordBank

\* the intervals left once clearInterval(this.timerInterval) has run, which
\* it does only when the field holds a handle
AfterStopTimer ==
    IF timerInterval THEN activeIntervals - 1 ELSE activeIntervals

stopTimer ==
    /\ timerInterval' = FALSE
    /\ activeIntervals' = AfterStopTimer

\* startTimer without its call of stopTimer
startTimerNoCancel ==
    /\ timerInterval' = TRUE
    /\ activeIntervals' = activeIntervals + 1

\* stopTimer, then setInterval
startTimer ==
    /\ timerInterval' = TRUE
    /\ activeIntervals' = AfterStopTimer + 1

\* { ...this.state }: a copy of the fields.  Its seenWords field is not a
\* copy: it is the very array state.seenWords refers to.  `returned`
\* records what that array held when getState returned.
Snapshot ==
    [gameState |-> gameState, gameMode |-> gameMode,
     currentScore |-> currentScore, lives |-> lives,
     currentWordData |-> currentWordData, timerValue |-> timerValue,
     returned |-> seenWords]

\* the seenWords a holder of snapshot r reads now: the shared array
SnapshotSeenWords(r) == seenWords

\* startGame gives the state a new array; the one a snapshot refers to is
\* then out of the engine's reach and cannot change any more, so the model
\* stops following the snapshot
DetachedSnapshots == <<>>

\* the model explores a resolution only while its bounds leave room for it
CanResolve ==
    /\ Len(seenWords) < MaxSeen
    /\ pendingDelays < MaxDelays
    /\ pendingSaves < MaxSaves

\* fetchNextWord up to its await: the phase check and the getNextWord call
fetchNextWord ==
    IF gameState # "PLAYING"
    THEN pendingFetches' = pendingFetches
    ELSE /\ Len(pendingFetches) < MaxFetches
         /\ pendingFetches' = Append(pendingFetches, FetchOfCurrent)

\* startGame replaces state.seenWords by a new array: the calls in flight
\* keep the old one
Detached(fetches) ==
    [i \in 1..Len(fetches) |->
        IF fetches[i].cur THEN [cur |-> FALSE, words |-> Range(seenWords)]
        ELSE fetches[i]]

\* startGame without its check for a game in progress
startGameWhilePlaying ==
    /\ Len(pendingFetches) < MaxFetches
    /\ gameState' = "PLAYING"
    /\ currentScore' = 0
    /\ lives' = StartLives
    /\ seenWords' = <<>>
    /\ pendingFetches' = Append(Detached(pendingFetches), FetchOfCurrent)
    /\ presented' = FALSE
    /\ resolved' = NoResolution
    /\ roundCorrect' = 0
    /\ roundMode' = gameMode
    /\ saveLog' = <<>>
    /\ snapshots' = DetachedSnapshots
    /\ UNCHANGED <<gameMode, currentWordData, timerValue, timerInterval,
                   activeIntervals, isProcessingAnswer, pendingDelays,
                   pendingSaves>>

\* startGame forgetting to reset lives
startGameKeepsLives ==
    IF gameState = "PLAYING"
    THEN UNCHANGED vars
    ELSE /\ Len(pendingFetches) < MaxFetches
         /\ gameState' = "PLAYING"
         /\ currentScore' = 0
         /\ seenWords' = <<>>
         /\ pendingFetches' = Append(Detached(pendingFetches), FetchOfCurrent)
         /\ presented' = FALSE
         /\ resolved' = NoResolution
         /\ roundCorrect' = 0
         /\ roundMode' = gameMode
         /\ saveLog' = <<>>
         /\ snapshots' = DetachedSnapshots
         /\ UNCHANGED <<gameMode, lives, currentWordData, timerValue,
                        timerInterval, activeIntervals, isProcessingAnswer,
                        pendingDelays, pendingSaves>>

\* startGame up to the await inside fetchNextWord, whose phase check passes
\* because gameState has just been set
startGame ==
    IF gameState = "PLAYING"
    THEN UNCHANGED vars
    ELSE /\ Len(pendingFetches) < MaxFetches
         /\ gameState' = "PLAYING"
         /\ currentScore' = 0
         /\ lives' = StartLives
         /\ seenWords' = <<>>
         /\ pendingFetches' = Append(Detached(pendingFetches), FetchOfCurrent)
         /\ presented' = FALSE
         /\ resolved' = NoResolution
         /\ roundCorrect' = 0
         /\ roundMode' = gameMode
         /\ saveLog' = <<>>
         /\ snapshots' = DetachedSnapshots
         /\ UNCHANGED <<gameMode, currentWordData, timerValue, timerInterval,
                        activeIntervals, isProcessingAnswer, pendingDelays,
                        pendingSaves>>

\* the callback of setTimeout(() => this.fetchNextWord(), 500)
DelayFire ==
    /\ pendingDelays > 0
    /\ pendingDelays' = pendingDelays - 1
    /\ fetchNextWord
    /\ UNCHANGED <<engine, pendingSaves, snapshots, history>>

\* getNextWord resolves and fetchNextWord resumes after its await
FetchComplete ==
    /\ pendingFetches # <<>>
    /\ LET f == Head(pendingFetches)
           words == IF f.cur THEN Range(seenWords) ELSE f.words
       IN \E w \in GetNextWordResults(words), t \in TimeLimits :
             /\ currentWordData' = [word |-> w, time_limit |-> t]
             /\ timerValue' = t
    /\ startTimer
    /\ pendingFetches' = Tail(pendingFetches)
    /\ presented' = TRUE
    /\ resolved' = NoResolution
    /\ UNCHANGED <<gameState, gameMode, currentScore, lives, seenWords,
                   isProcessingAnswer, pendingDelays, pendingSaves,
                   snapshots, roundCorrect, roundMode, saveLog>>

\* gameOver up to its await: the saveScore call is made with the score and
\* mode of this moment; isProcessingAnswer keeps the value `guard` it has
gameOver(guard) ==
    /\ stopTimer
    /\ gameState' = "GAME_OVER"
    /\ pendingSaves' = pendingSaves + 1
    /\ saveLog' = Append(saveLog, [score |-> currentScore, mode |-> gameMode])
    /\ isProcessingAnswer' = guard
    /\ pendingDelays' = pendingDelays

\* handleCorrectAnswer forgetting to record the word as seen
handleCorrectAnswerNoPush ==
    /\ currentScore' = currentScore + 1
    /\ seenWords' = seenWords
    /\ isProcessingAnswer' = FALSE
    /\ pendingDelays' = pendingDelays + 1
    /\ roundCorrect' = roundCorrect + 1
    /\ UNCHANGED <<lives, gameState, pendingSaves, saveLog>>

handleCorrectAnswer ==
    /\ currentScore' = currentScore + 1
    /\ seenWords' = Append(seenWords, currentWordData.word)
    /\ isProcessingAnswer' = FALSE
    /\ pendingDelays' = pendingDelays + 1
    /\ roundCorrect' = roundCorrect + 1
    /\ UNCHANGED <<lives, gameState, pendingSaves, saveLog>>

\* handleWrongAnswer ending the game only once lives is below zero
handleWrongAnswerBelowZero(guard) ==
    /\ lives' = lives - 1
    /\ seenWords' = Append(seenWords, currentWordData.word)
    /\ IF lives - 1 < 0
       THEN gameOver(guard)
       ELSE /\ isProcessingAnswer' = FALSE
            /\ pendingDelays' = pendingDelays + 1
            /\ UNCHANGED <<gameState, pendingSaves, saveLog>>
    /\ UNCHANGED <<currentScore, roundCorrect>>

\* `guard` is the value isProcessingAnswer has when the handler is entered
handleWrongAnswer(guard) ==
    /\ lives' = lives - 1
    /\ seenWords' = Append(seenWords, currentWordData.word)
    /\ IF lives - 1 <= 0
       THEN gameOver(guard)
       ELSE /\ isProcessingAnswer' = FALSE
            /\ pendingDelays' = pendingDelays + 1
            /\ UNCHANGED <<gameState, pendingSaves, saveLog>>
    /\ UNCHANGED <<currentScore, roundCorrect>>

\* handleTimerExpiry with its guard the wrong way round
handleTimerExpiryGuardInverted ==
    IF ~isProcessingAnswer
    THEN UNCHANGED <<gameState, currentScore, lives, seenWords, timerInterval,
                     activeIntervals, isProcessingAnswer, pendingDelays,
                     pendingSaves, resolved, roundCorrect, saveLog>>
    ELSE /\ CanResolve
         /\ stopTimer
         /\ handleWrongAnswer(isProcessingAnswer)
         /\ resolved' = [resolved EXCEPT !.timeout = @ + 1]

handleTimerExpiry ==
    IF isProcessingAnswer
    THEN UNCHANGED <<gameState, currentScore, lives, seenWords, timerInterval,
                     activeIntervals, isProcessingAnswer, pendingDelays,
                     pendingSaves, resolved, roundCorrect, saveLog>>
    ELSE /\ CanResolve
         /\ stopTimer
         /\ handleWrongAnswer(isProcessingAnswer)
         /\ resolved' = [resolved EXCEPT !.timeout = @ + 1]

\* one run of the setInterval callback of startTimer; its duration is the
\* timerValue startTimer read, the time limit of the word just installed
Tick ==
    /\ activeIntervals > 0
    /\ \E elapsed \in ElapsedTimes(currentWordData.time_limit * MsPerTenth) :
          LET duration == currentWordData.time_limit * MsPerTenth
              remaining == Max(0, duration - elapsed)
          IN \* the clock does not run backwards between two callbacks
             /\ toFixed1(remaining) <= timerValue
             /\ timerValue' = toFixed1(remaining)
             /\ IF remaining <= 0
                THEN handleTimerExpiry
                ELSE UNCHANGED <<gameState, currentScore, lives, seenWords,
                                 timerInterval, activeIntervals,
                                 isProcessingAnswer, pendingDelays,
                                 pendingSaves, resolved, roundCorrect,
                                 saveLog>>
    /\ UNCHANGED <<gameMode, currentWordData, pendingFetches, snapshots,
                   presented, roundMode>>

answerSeenIsCorrect == includes(seenWords, currentWordData.word)

\* answerNew testing membership after the word has been appended
answerNewIsCorrectAfterPush ==
    ~includes(Append(seenWords, currentWordData.word), currentWordData.word)

answerNewIsCorrect == ~includes(seenWords, currentWordData.word)

\* what answerSeen and answerNew share once isCorrect is known
evaluate(isCorrect) ==
    /\ CanResolve
    /\ stopTimer
    /\ IF isCorrect
       THEN /\ handleCorrectAnswer
            /\ resolved' = [resolved EXCEPT !.correct = @ + 1]
       ELSE /\ handleWrongAnswer(TRUE)
            /\ resolved' = [resolved EXCEPT !.wrong = @ + 1]
    /\ UNCHANGED <<gameMode, currentWordData, timerValue, pendingFetches,
                   snapshots, presented, roundMode>>

answerSeen ==
    IF gameState # "PLAYING" THEN UNCHANGED vars
    ELSE IF isProcessingAnswer THEN UNCHANGED vars
    ELSE evaluate(answerSeenIsCorrect)

answerNew ==
    IF gameState # "PLAYING" THEN UNCHANGED vars
    ELSE IF isProcessingAnswer THEN UNCHANGED vars
    ELSE evaluate(answerNewIsCorrect)

\* saveScore resolves and gameOver resumes after its await
SaveScoreResolve ==
    /\ pendingSaves > 0
    /\ pendingSaves' = pendingSaves - 1
    /\ isProcessingAnswer' = FALSE
    /\ UNCHANGED <<gameState, gameMode, currentScore, lives, seenWords,
                   currentWordData, timerValue, timerInterval, activeIntervals,
                   pendingDelays, pendingFetches, snapshots, history>>

\* saveScore rejects: the await throws and the rest of gameOver is skipped
SaveScoreReject ==
    /\ pendingSaves > 0
    /\ pendingSaves' = pendingSaves - 1
    /\ UNCHANGED <<engine, pendingDelays, pendingFetches, snapshots, history>>

\* setMode without its check for a game in progress
setModeAnyPhase(mode) ==
    IF mode \notin Modes THEN UNCHANGED vars
    ELSE /\ gameMode' = mode
         /\ UNCHANGED <<gameState, currentScore, lives, seenWords,
                        currentWordData, timerValue, timerInterval,
                        activeIntervals, isProcessingAnswer, pendingDelays,
                        pendingFetches, pendingSaves, snapshots, history>>

setMode(mode) ==
    IF mode \notin Modes THEN UNCHANGED vars
    ELSE IF gameState = "PLAYING" THEN UNCHANGED vars
    ELSE /\ gameMode' = mode
         /\ UNCHANGED <<gameState, currentScore, lives, seenWords,
                        currentWordData, timerValue, timerInterval,
                        activeIntervals, isProcessingAnswer, pendingDelays,
                        pendingFetches, pendingSaves, snapshots, history>>

Next ==
    \/ startGame
    \/ DelayFire
    \/ FetchComplete
    \/ Tick
    \/ answerSeen
    \/ answerNew
    \/ SaveScoreResolve
    \/ \E mode \in ModeInputs : setMode(mode)

Spec == Init /\ [][Next]_vars

\* the presentation layer calls getState and keeps what it returns
getState ==
    /\ Len(snapshots) < MaxSnapshots
    /\ snapshots' = Append(snapshots, Snapshot)
    /\ UNCHANGED <<engine, pendingDelays, pendingFetches, pendingSaves,
                   history>>

\* the engine together with a holder of snapshots
NextSnapshot == Next \/ getState

SpecSnapshot == Init /\ [][NextSnapshot]_vars

\* a player who starts games, watches the state and never answers; the
\* event loop runs every callback that is due, and the supplier and the
\* sink always respond
NextNoAnswers ==
    \/ startGame
    \/ DelayFire
    \/ FetchComplete
    \/ Tick
    \/ SaveScoreResolve
    \/ \E mode \in ModeInputs : setMode(mode)
    \/ getState

SpecNoAnswers ==
    /\ Init
    /\ [][NextNoAnswers]_vars
    /\ WF_vars(DelayFire)
    /\ WF_vars(FetchComplete)
    /\ WF_vars(Tick)
    /\ WF_vars(SaveScoreResolve)

\* the same engine with a score sink that can fail
NextSinkFails == Next \/ SaveScoreReject

SpecSinkFails == Init /\ [][NextSinkFails]_vars

(***************************************************************************)
(* Properties.                                                             *)
(***************************************************************************)
answersForWord == resolved.correct + resolved.wrong
livesLostForWord == resolved.wrong + resolved.timeout
appendsForWord == resolved.correct + resolved.wrong + resolved.timeout

\* C1: in every reachable state lives is an integer in 0..3; it never
\* becomes negative.
LivesInRange == lives \in 0..StartLives

\* C2: of two answers submitted for the same presented word, with no new
\* word installed in between, only one is evaluated: at most one answer has
\* been evaluated since the word was installed.
OneEvaluationPerWord == presented => answersForWord <= 1

\* C3: saveScore is called exactly once in a round that has reached
\* GAME_OVER, with the round's final score and mode, and not at all in a
\* round that has not.
SaveScoreOncePerGameOver ==
    IF gameState = "GAME_OVER"
    THEN saveLog = <<[score |-> currentScore, mode |-> roundMode]>>
    ELSE saveLog = <<>>

\* C4: while the phase is GAME_OVER no step other than startGame changes
\* score, lives, seenWords or the phase.
FrozenAfterGameOver ==
    [][(gameState = "GAME_OVER" /\ gameState' # "PLAYING")
          => UNCHANGED <<currentScore, lives, seenWords, gameState>>]_vars

\* C5: the phase becomes GAME_OVER in exactly the steps in which lives
\* reaches 0, those steps start in PLAYING and decrement lives from 1, and
\* while the phase is PLAYING lives is at least 1.
GameOverExactlyAtZeroLives ==
    /\ [](gameState = "PLAYING" => lives \in 1..StartLives)
    /\ [][/\ (gameState # "GAME_OVER" /\ gameState' = "GAME_OVER")
             <=> (lives > 0 /\ lives' <= 0)
          /\ (gameState # "GAME_OVER" /\ gameState' = "GAME_OVER")
             => (gameState = "PLAYING" /\ lives = 1 /\ lives' = 0)]_vars

\* a round ended by its third lost life
C5Witness ==
    /\ gameState = "GAME_OVER"
    /\ lives = 0
    /\ presented
    /\ livesLostForWord = 1
    /\ Len(saveLog) = 1

\* C6: once an answer has been accepted for the presented word the
\* countdown is disarmed until the next word is installed, and a presented
\* word costs at most one life.
NoDoublePenaltyPerWord ==
    presented =>
        /\ answersForWord >= 1 => ~timerInterval
        /\ livesLostForWord <= 1

\* C7: a presented word is appended to seenWords exactly once, at its
\* resolution: never more than one append between two installations.
OneAppendPerPresentation == presented => appendsForWord <= 1

\* C8: score is the number of answers evaluated correct since startGame,
\* with at most one of them per presented word.
ScoreCountsOneCorrectPerWord ==
    /\ currentScore = roundCorrect
    /\ presented => resolved.correct <= 1

\* C9: an accepted answer is judged by whether currentWord is in seenWords
\* before this resolution appends it: SEEN is correct iff it is, NEW iff it
\* is not; correct gives score+1 and the same lives, incorrect gives
\* lives-1 and the same score.
AnswerJudgedByPriorMembership ==
    [][LET word == currentWordData.word
           wasAlreadySeen == word \in Range(seenWords)
           accepted == gameState = "PLAYING" /\ ~isProcessingAnswer
           correct == /\ currentScore' = currentScore + 1
                      /\ lives' = lives
                      /\ seenWords' = Append(seenWords, word)
           incorrect == /\ lives' = lives - 1
                        /\ currentScore' = currentScore
                        /\ seenWords' = Append(seenWords, word)
       IN /\ (accepted /\ answerSeen)
             => IF wasAlreadySeen THEN correct ELSE incorrect
          /\ (accepted /\ answerNew)
             => IF wasAlreadySeen THEN incorrect ELSE correct]_vars

\* NEW on a novel word, then SEEN on its repeat: two correct answers
C9Witness ==
    /\ currentScore = 2
    /\ lives = StartLives
    /\ seenWords = <<"apple", "apple">>
    /\ presented
    /\ resolved = [correct |-> 1, wrong |-> 0, timeout |-> 0]

\* C10: a failing score sink leaves the engine callable: in a round, once
\* no saveScore call is outstanding, the reentrancy guard is not set.
GuardNotLeftSet ==
    (gameState = "PLAYING" /\ pendingSaves = 0) => ~isProcessingAnswer

\* C11: setMode during PLAYING is rejected: while the phase is PLAYING the
\* mode is still the one the round was started with.
ModeFixedWhilePlaying == gameState = "PLAYING" => gameMode = roundMode

\* a round played in a mode chosen before it began
C11Witness ==
    /\ gameState = "PLAYING"
    /\ gameMode = "hard"
    /\ presented
    /\ Len(seenWords) = 2

\* C12: startGame while the phase is PLAYING changes no part of the game
\* state, issues no word fetch and leaves the countdown as it is.
StartWhilePlayingIsNoOp ==
    [][(gameState = "PLAYING" /\ startGame)
          => UNCHANGED <<engine, pendingDelays, pendingFetches,
                         pendingSaves>>]_vars

\* a round in progress, with a score, a word on display and its countdown
C12Witness ==
    /\ gameState = "PLAYING"
    /\ currentScore = 1
    /\ lives = 2
    /\ timerInterval
    /\ timerValue = 20
    /\ presented

\* C13: startGame from MENU or GAME_OVER sets phase PLAYING, score 0,
\* lives 3 and seenWords empty and issues exactly one word fetch, whatever
\* the previous round left.
StartGameResetsRound ==
    [][((gameState # "PLAYING" /\ startGame) \/
        (gameState # "PLAYING" /\ gameState' = "PLAYING"))
          => /\ gameState' = "PLAYING"
             /\ currentScore' = 0
             /\ lives' = StartLives
             /\ seenWords' = <<>>
             /\ Len(pendingFetches') = Len(pendingFetches) + 1
             /\ pendingFetches'[Len(pendingFetches')] = FetchOfCurrent
             /\ pendingDelays' = pendingDelays]_vars

\* a second round just started after a lost one
C13Witness ==
    /\ gameState = "PLAYING"
    /\ ~presented
    /\ currentWordData.word # ""
    /\ currentScore = 0
    /\ lives = StartLives
    /\ seenWords = <<>>
    /\ Len(pendingFetches) = 1

\* C14: the value getState returned is immutable: what its holder reads
\* in it later is what it held when it was returned.  (The other fields
\* are copies of numbers and strings, and of a currentWordData object that
\* the engine replaces and never writes to.)
SnapshotImmutable ==
    \A i \in 1..Len(snapshots) :
        SnapshotSeenWords(snapshots[i]) = snapshots[i].returned

\* C15: no countdown survives its round: while the phase is MENU or
\* GAME_OVER no countdown is armed.
NoCountdownOutsidePlaying ==
    gameState \in {"MENU", "GAME_OVER"} =>
        (~timerInterval /\ activeIntervals = 0)

\* C16: at most one round-advance (a scheduled delay or a getNextWord call
\* in flight) is pending at any time, and while a getNextWord call is in
\* flight no answer or timeout changes score, lives or seenWords.
roundAdvances == pendingDelays + Len(pendingFetches)

OneRoundInFlight ==
    [][/\ roundAdvances' <= 1
       /\ (pendingFetches # <<>> /\ ~(gameState # "PLAYING" /\ startGame))
             => UNCHANGED <<currentScore, lives, seenWords>>]_vars

\* C17: at most one countdown is active, the handle the engine holds is
\* that countdown, and a countdown that has fired the timeout transition has
\* stopped: it fires at most once.
OneCountdown ==
    /\ activeIntervals \in {0, 1}
    /\ timerInterval <=> activeIntervals = 1
    /\ resolved.timeout <= 1
    /\ resolved.timeout = 1 => ~timerInterval

\* a countdown that has fired and stopped itself, the round going on
C17Witness ==
    /\ gameState = "PLAYING"
    /\ resolved = [correct |-> 0, wrong |-> 0, timeout |-> 1]
    /\ activeIntervals = 0
    /\ timerValue = 0
    /\ lives = 2

\* C18: the length of seenWords is score + (3 - lives).
SeenWordsCountsResolutions ==
    Len(seenWords) = currentScore + (StartLives - lives)

\* one correct answer, one wrong answer and one timeout in a round
C18Witness ==
    /\ currentScore = 1
    /\ lives = 1
    /\ Len(seenWords) = 3
    /\ resolved.timeout = 1

\* C19: between startGame and the installation of the round's first word
\* no answer is evaluated and no left-over word is scored or appended:
\* score, lives and seenWords are as startGame set them.
NothingResolvedBeforeFirstWord ==
    (gameState = "PLAYING" /\ ~presented) =>
        /\ currentScore = 0
        /\ lives = StartLives
        /\ seenWords = <<>>

\* C20: with no answers submitted, a started game eventually reaches
\* GAME_OVER, and it does so after exactly three timeouts: with score 0,
\* lives 0 and three entries in seenWords.
TimeoutsEndTheGame ==
    /\ [](gameState = "GAME_OVER" =>
             /\ currentScore = 0
             /\ lives = 0
             /\ Len(seenWords) = 3
             /\ Len(saveLog) = 1)
    /\ (gameState = "PLAYING") ~> (gameState = "GAME_OVER")

\* the game over that the third timeout produced
C20Witness ==
    /\ gameState = "GAME_OVER"
    /\ currentScore = 0
    /\ lives = 0
    /\ Len(seenWords) = 3
    /\ resolved = [correct |-> 0, wrong |-> 0, timeout |-> 1]
    /\ ~isProcessingAnswer
====
